---- MODULE Spec2Model ----
(***************************************************************************)
(* A model of src/src/scraper/index.py: the paginated crawl of             *)
(* SuumoScraper (scrape, _scrape_page, _scrape_building, _scrape_room),    *)
(* the construction of the page URL, and RoomInfoRegister's conditional    *)
(* writes into the DynamoDB table.                                         *)
(*                                                                         *)
(* Four specifications share the variables:                                *)
(*   SpecScrape    one call of SuumoScraper.scrape() against a site;       *)
(*   SpecUrl       SuumoScraper.__init__ and the URL of _scrape_page(n);   *)
(*   SpecRegister  runs of RoomInfoRegister.register() against one table;  *)
(*   SpecRoom      the text fields _scrape_room reads from a room row.     *)
(***************************************************************************)
EXTENDS Integers, Sequences, FiniteSets, TLC

VARIABLES
    \* ---- SuumoScraper.scrape() ----
    scrape_pc,        \* "loop" | "returned" | "raised"
    page,             \* the local `page` of scrape()
    building_infos,   \* the local `building_infos` of scrape()
    scrape_result,    \* what scrape() returned (<<>> until it returns)
    scrape_error,     \* the exception that left scrape() ("" when none)
    requested,        \* history: the page numbers passed to _scrape_page
    fetched,          \* history: the page documents urlopen answered with
    extracted,        \* history: what each _scrape_page call returned
    \* ---- SuumoScraper.__init__ / the URL of _scrape_page ----
    url_pc,           \* "new" | "constructed" | "requested"
    entry_params,     \* the parameters of the entry URL, as written in it
    entry_query,      \* the query string of the entry URL (characters)
    params,           \* self.params
    url_page,         \* the page number of the last _scrape_page call
    url_query,        \* the query string of the URL it requested
    \* ---- RoomInfoRegister ----
    table,            \* the DynamoDB table: a set of items
    reg_pc,           \* per run: "new" | "ready" | "register" | "done" | exception
    reg_building_infos, \* per run: self.building_infos (the __dict__ of each)
    reg_orig,         \* history: self.building_infos as constructed
    reg_bi,           \* per run: index of the building of the outer loop
    reg_ri,           \* per run: index of the room of the inner loop
    reg_iter,         \* per run: the list the inner loop iterates over
    reg_calls,        \* history, per run: the _register_room_info calls
    reg_after,        \* history, per run: the runs that had ended at construction
    first_write,      \* history: per key, the first item the table accepted
    \* ---- SuumoScraper._scrape_room: the text fields ----
    room_pc,          \* "new" | "scraped"
    room_tag,         \* the text nodes of the row's elements, as in the markup
    room_texts        \* the text fields of the RoomInfo _scrape_room returned

scrape_vars == <<scrape_pc, page, building_infos, scrape_result, scrape_error,
                 requested, fetched, extracted>>
url_vars == <<url_pc, entry_params, entry_query, params, url_page, url_query>>
reg_vars == <<table, reg_pc, reg_building_infos, reg_orig, reg_bi, reg_ri,
              reg_iter, reg_calls, reg_after, first_write>>
room_vars == <<room_pc, room_tag, room_texts>>
vars == <<scrape_vars, url_vars, reg_vars, room_vars>>

-----------------------------------------------------------------------------
(* Bounds *)

\* result pages of the site that may hold buildings
MaxPages == 2
\* building cards on one page
MaxCards == 2
\* query parameters of the entry URL
MaxParams == 2
\* buildings handed to one RoomInfoRegister
MaxBuildings == 2

-----------------------------------------------------------------------------
(* Helpers *)

SeqsUpTo(S, n) == UNION {[1..k -> S] : k \in 0..n}

RECURSIVE Concat(_)
Concat(ss) == IF ss = <<>> THEN <<>> ELSE Head(ss) \o Concat(Tail(ss))

Front(s) == SubSeq(s, 1, Len(s) - 1)

Last(s) == s[Len(s)]

Range(s) == {s[i] : i \in 1..Len(s)}

-----------------------------------------------------------------------------
(* The markup of a result page, as far as the scraper looks at it.         *)
(* A room row (<tbody>) is the sequence of its <td> cells; a cell holds    *)
(* the marked elements found inside it. find(marker) succeeds iff some     *)
(* cell of the row holds the marker; find_all("td")[2] is the third cell.  *)

\* the elements _scrape_room looks up by tag or class inside a row
RoomMarkers == {"input", "casssetteitem_other-thumbnail",
                "cassetteitem_price--rent", "cassetteitem_price--administration",
                "cassetteitem_price--deposit", "cassetteitem_price--gratuity",
                "cassetteitem_madori", "cassetteitem_menseki"}

\* the text of the row's elements (the listing of tests/unit/test_scraper.py)
ElemText(marker) ==
    CASE marker = "cassetteitem_price--rent" -> "100000yen"
      [] marker = "cassetteitem_price--administration" -> "5000yen"
      [] marker = "cassetteitem_price--deposit" -> "-"
      [] marker = "cassetteitem_price--gratuity" -> "-"
      [] marker = "cassetteitem_madori" -> "1DK"
      [] marker = "cassetteitem_menseki" -> "40.0m2"
      [] OTHER -> ""

Td(kind, elems, text) == [kind |-> kind, elems |-> elems, text |-> text]

TdCheckbox == Td("checkbox", {"input"}, "")
TdThumbnail == Td("thumbnail", {"casssetteitem_other-thumbnail"}, "")
TdFloor == Td("floor", {}, "5F")
TdPrice == Td("price", {"cassetteitem_price--rent",
                        "cassetteitem_price--administration"}, "100000yen 5000yen")
TdDeposit == Td("deposit", {"cassetteitem_price--deposit",
                            "cassetteitem_price--gratuity"}, "- -")
TdLayout == Td("layout", {"cassetteitem_madori", "cassetteitem_menseki"},
               "1DK 40.0m2")
TdTags == Td("tags", {}, "panorama")

\* the cells of a well-formed row, in document order
FullCells == <<TdCheckbox, TdThumbnail, TdFloor, TdPrice, TdDeposit, TdLayout,
               TdTags>>

RECURSIVE Without(_, _)
Without(cells, kind) ==
    IF cells = <<>> THEN <<>>
    ELSE IF Head(cells).kind = kind THEN Without(Tail(cells), kind)
         ELSE <<Head(cells)>> \o Without(Tail(cells), kind)

\* a row: the value attribute of its <input> and its cells
Row(value, cells) == [value |-> value, imgs |-> <<"image01.jpg", "image02.jpg">>,
                      tds |-> cells]

WellFormedRow(value) == Row(value, FullCells)
\* the row without the cell of its <input> (the id control)
RowNoInput(value) == Row(value, Without(FullCells, "checkbox"))
\* the row without its floor cell: the price cell is then the third <td>
RowNoFloor(value) == Row(value, Without(FullCells, "floor"))
\* the row whose layout cell lacks the area <span>
RowNoMenseki(value) ==
    Row(value, <<TdCheckbox, TdThumbnail, TdFloor, TdPrice, TdDeposit,
                 Td("layout", {"cassetteitem_madori"}, "1DK"), TdTags>>)

HasElem(row, marker) == \E i \in 1..Len(row.tds) : marker \in row.tds[i].elems

HasFloorCell(row) == \E i \in 1..Len(row.tds) : row.tds[i].kind = "floor"

\* a row lacks a required element: one of the marked elements or the floor cell
LacksRequired(row) ==
    \/ \E m \in RoomMarkers : ~HasElem(row, m)
    \/ ~HasFloorCell(row)

\* a building card: its rows (the other elements of the card are present)
Card(title, rows) == [title |-> title, rows |-> rows]

\* the cards the site may serve
Cards == {Card("A", <<>>),
          Card("B", <<WellFormedRow("r1"), WellFormedRow("r2")>>),
          Card("C", <<WellFormedRow("r3"), RowNoInput("r4")>>),
          Card("D", <<RowNoFloor("r5")>>),
          Card("E", <<RowNoMenseki("r6")>>)}

\* what urlopen answers: a document, or an error (URLError, HTTPError)
Document(cards) == [status |-> "ok", cards |-> cards]
FetchFailure == [status |-> "URLError", cards |-> <<>>]

Documents == {Document(cs) : cs \in SeqsUpTo(Cards, MaxCards)}

-----------------------------------------------------------------------------
(* SuumoScraper: extraction *)

Ok(value) == [raised |-> "", value |-> value]
Raise(exc) == [raised |-> exc, value |-> <<>>]

NoRoom == [id |-> "", image_urls |-> <<>>, floor |-> "", price_rent |-> "",
           price_maintenance |-> "", price_deposit |-> "",
           price_gratuity |-> "", section_type |-> "", area |-> ""]

\* _scrape_room: the keyword arguments are evaluated in order; find() gives
\* None for an absent element and the attribute access on None raises.
scrape_room(row) ==
    IF ~HasElem(row, "input") THEN [raised |-> "AttributeError", value |-> NoRoom]
    ELSE IF ~HasElem(row, "casssetteitem_other-thumbnail")
         THEN [raised |-> "AttributeError", value |-> NoRoom]
    ELSE IF Len(row.tds) < 3 THEN [raised |-> "IndexError", value |-> NoRoom]
    ELSE IF \E m \in RoomMarkers : ~HasElem(row, m)
         THEN [raised |-> "AttributeError", value |-> NoRoom]
    ELSE [raised |-> "",
          value |-> [id |-> row.value,
                     image_urls |-> row.imgs,
                     floor |-> row.tds[3].text,
                     price_rent |-> ElemText("cassetteitem_price--rent"),
                     price_maintenance |->
                         ElemText("cassetteitem_price--administration"),
                     price_deposit |-> ElemText("cassetteitem_price--deposit"),
                     price_gratuity |-> ElemText("cassetteitem_price--gratuity"),
                     section_type |-> ElemText("cassetteitem_madori"),
                     area |-> ElemText("cassetteitem_menseki")]]

\* the list comprehension over the rows of a card: the first row that raises
\* ends it
RECURSIVE scrape_rooms(_)
scrape_rooms(rows) ==
    IF rows = <<>> THEN Ok(<<>>)
    ELSE LET r == scrape_room(Head(rows)) IN
         IF r.raised # "" THEN Raise(r.raised)
         ELSE LET rest == scrape_rooms(Tail(rows)) IN
              IF rest.raised # "" THEN rest
              ELSE Ok(<<r.value>> \o rest.value)

BuildingInfo(name, room_infos) ==
    [name |-> name, image_url |-> "https://example.com/image.jpg",
     address |-> "Tokyo", accesses |-> <<"JR Chuo line/Tokyo 1 min">>,
     age |-> "10 years", floor |-> "10 floors", room_infos |-> room_infos]

\* _scrape_building: the rooms first, then the fields of the card
scrape_building(card) ==
    LET rooms == scrape_rooms(card.rows) IN
    IF rooms.raised # "" THEN Raise(rooms.raised)
    ELSE Ok(BuildingInfo(card.title, rooms.value))

RECURSIVE scrape_buildings(_)
scrape_buildings(cards) ==
    IF cards = <<>> THEN Ok(<<>>)
    ELSE LET b == scrape_building(Head(cards)) IN
         IF b.raised # "" THEN Raise(b.raised)
         ELSE LET rest == scrape_buildings(Tail(cards)) IN
              IF rest.raised # "" THEN rest
              ELSE Ok(<<b.value>> \o rest.value)

\* the mutant of scrape_page that takes a failed fetch for an empty page
scrape_page_swallow(doc) ==
    IF doc.status # "ok" THEN Ok(<<>>) ELSE scrape_buildings(doc.cards)

\* _scrape_page from urlopen's answer on: urlopen raises on a failed fetch,
\* else every card of the document is extracted, in document order
scrape_page(doc) ==
    IF doc.status # "ok" THEN Raise(doc.status) ELSE scrape_buildings(doc.cards)

-----------------------------------------------------------------------------
(* SuumoScraper.scrape() *)

FirstPage == 1

\* the mutant of extend that replaces the list
extend_replace(acc, infos) == infos

\* building_infos.extend(infos)
extend(acc, infos) == acc \o infos

\* the mutant of NextPage that requests the same page again
NextPage_same(p) == p

\* page += 1
NextPage(p) == p + 1

\* the mutant of Continue that goes on after an empty page
Continue_always(infos) == TRUE

\* the condition of the while loop: the list _scrape_page returned is not empty
Continue(infos) == infos # <<>>

\* what the site answers for page p: any document or a failure up to MaxPages;
\* beyond its last result page the site serves an empty page
SiteAnswers(p) ==
    IF p <= MaxPages THEN Documents \cup {FetchFailure}
    ELSE {Document(<<>>), FetchFailure}

\* one evaluation of the loop condition `infos := self._scrape_page(page)` and,
\* when the list is not empty, of the loop body; else the return
ScrapeStep(doc) ==
    LET r == scrape_page(doc) IN
    /\ requested' = Append(requested, page)
    /\ fetched' = Append(fetched, doc)
    /\ IF r.raised # ""
       THEN /\ scrape_pc' = "raised"
            /\ scrape_error' = r.raised
            /\ UNCHANGED <<page, building_infos, scrape_result, extracted>>
       ELSE /\ extracted' = Append(extracted, r.value)
            /\ scrape_error' = scrape_error
            /\ IF Continue(r.value)
               THEN /\ building_infos' = extend(building_infos, r.value)
                    /\ page' = NextPage(page)
                    /\ UNCHANGED <<scrape_pc, scrape_result>>
               ELSE /\ scrape_pc' = "returned"
                    /\ scrape_result' = building_infos
                    /\ UNCHANGED <<page, building_infos>>

ScrapeLoop ==
    /\ scrape_pc = "loop"
    /\ Len(requested) <= MaxPages
    /\ \E doc \in SiteAnswers(page) : ScrapeStep(doc)
    /\ UNCHANGED <<url_vars, reg_vars, room_vars>>

-----------------------------------------------------------------------------
(* SuumoScraper.__init__ and the URL of _scrape_page. Strings are sequences *)
(* of one-character strings.                                                *)

Chars(key, value) == key \o <<"=">> \o value

RECURSIVE Join(_, _)
Join(pieces, sep) ==
    IF pieces = <<>> THEN <<>>
    ELSE IF Len(pieces) = 1 THEN pieces[1]
    ELSE pieces[1] \o <<sep>> \o Join(Tail(pieces), sep)

\* the index of the first occurrence of c in s, 0 when there is none
RECURSIVE IndexOf(_, _)
IndexOf(s, c) ==
    IF s = <<>> THEN 0
    ELSE IF Head(s) = c THEN 1
    ELSE LET i == IndexOf(Tail(s), c) IN IF i = 0 THEN 0 ELSE i + 1

\* str.split(sep)
RECURSIVE Split(_, _)
Split(s, sep) ==
    LET i == IndexOf(s, sep) IN
    IF i = 0 THEN <<s>>
    ELSE <<SubSeq(s, 1, i - 1)>> \o Split(SubSeq(s, i + 1, Len(s)), sep)

HexDigits == {"0", "1", "2", "3", "4", "5", "6", "7", "8", "9",
              "a", "b", "c", "d", "e", "f", "A", "B", "C", "D", "E", "F"}

\* the character a percent escape stands for; "?" stands for the characters
\* the escapes of the entry URLs below never name
HexChar(h1, h2) ==
    CASE <<h1, h2>> = <<"2", "6">> -> "&"
      [] <<h1, h2>> = <<"2", "0">> -> " "
      [] <<h1, h2>> = <<"2", "5">> -> "%"
      [] <<h1, h2>> \in {<<"3", "D">>, <<"3", "d">>} -> "="
      [] <<h1, h2>> \in {<<"2", "B">>, <<"2", "b">>} -> "+"
      [] OTHER -> "?"

\* urllib.parse.unquote: %XX becomes its character, anything else stays
RECURSIVE unquote(_)
unquote(s) ==
    IF s = <<>> THEN <<>>
    ELSE IF /\ Head(s) = "%"
            /\ Len(s) >= 3
            /\ s[2] \in HexDigits
            /\ s[3] \in HexDigits
         THEN <<HexChar(s[2], s[3])>> \o unquote(SubSeq(s, 4, Len(s)))
    ELSE <<Head(s)>> \o unquote(Tail(s))

\* str.replace("+", " ")
PlusToSpace(s) == [i \in 1..Len(s) |-> IF s[i] = "+" THEN " " ELSE s[i]]

\* urllib.parse.parse_qsl(qs) with its defaults (keep_blank_values=False,
\* strict_parsing=False): the pieces between "&"; an empty piece, a piece
\* without "=" and a piece with an empty value are left out; "+" becomes a
\* space and percent escapes are decoded in names and values
RECURSIVE parse_pairs(_)
parse_pairs(pieces) ==
    IF pieces = <<>> THEN <<>>
    ELSE LET nv == Head(pieces)
             i == IndexOf(nv, "=")
             name == SubSeq(nv, 1, i - 1)
             value == SubSeq(nv, i + 1, Len(nv))
         IN  IF nv = <<>> \/ i = 0 \/ value = <<>>
             THEN parse_pairs(Tail(pieces))
             ELSE <<<<unquote(PlusToSpace(name)), unquote(PlusToSpace(value))>>>>
                  \o parse_pairs(Tail(pieces))

parse_qsl(qs) == parse_pairs(Split(qs, "&"))

PageKey == <<"p", "a", "g", "e">>

\* the list comprehension of __init__: the pairs whose key is not "page"
RECURSIVE drop_page(_)
drop_page(pairs) ==
    IF pairs = <<>> THEN <<>>
    ELSE IF Head(pairs)[1] # PageKey THEN <<Head(pairs)>> \o drop_page(Tail(pairs))
    ELSE drop_page(Tail(pairs))

\* SuumoScraper.__init__: self.params
init_params(query) == drop_page(parse_qsl(query))

DigitChar(d) ==
    CASE d = 0 -> "0" [] d = 1 -> "1" [] d = 2 -> "2" [] d = 3 -> "3"
      [] d = 4 -> "4" [] d = 5 -> "5" [] d = 6 -> "6" [] d = 7 -> "7"
      [] d = 8 -> "8" [] d = 9 -> "9"

\* the decimal digits of a page number, as f"{page}" writes it
RECURSIVE Str(_)
Str(n) == IF n < 10 THEN <<DigitChar(n)>>
          ELSE Str(n \div 10) \o <<DigitChar(n % 10)>>

\* the query of the URL _scrape_page(n) requests
page_query(ps, n) ==
    Join([i \in 1..Len(ps) |-> Chars(ps[i][1], ps[i][2])]
         \o <<Chars(PageKey, Str(n))>>, "&")

\* the keys and the values, as written, of the entry URLs
UrlKeys == {PageKey, <<"f", "o", "o">>, <<"q">>}
UrlValues == {<<>>, <<"b", "a", "r">>, <<"5">>, <<"%", "2", "6">>,
              <<"a", "+", "b">>}
UrlParams == [key : UrlKeys, value : UrlValues]

\* the query string of an entry URL with the parameters ps
WrittenQuery(ps) ==
    Join([i \in 1..Len(ps) |-> Chars(ps[i].key, ps[i].value)], "&")

UrlConstruct ==
    /\ url_pc = "new"
    /\ url_pc' = "constructed"
    /\ params' = init_params(entry_query)
    /\ UNCHANGED <<entry_params, entry_query, url_page, url_query>>
    /\ UNCHANGED <<scrape_vars, reg_vars, room_vars>>

UrlScrapePage ==
    /\ url_pc \in {"constructed", "requested"}
    /\ \E n \in 1..(MaxPages + 1) :
          /\ url_page' = n
          /\ url_query' = page_query(params, n)
    /\ url_pc' = "requested"
    /\ UNCHANGED <<entry_params, entry_query, params>>
    /\ UNCHANGED <<scrape_vars, reg_vars, room_vars>>

-----------------------------------------------------------------------------
(* RoomInfoRegister. A BuildingInfo is modelled by its __dict__: a function *)
(* from the names of its attributes, so that `del` can take one away.       *)

Runs == {"run1", "run2"}

RoomIds == {"r1", "r2"}

\* the field values a crawl saw: they may change from one crawl to the next
Rent(v) == IF v = 1 THEN "100000yen" ELSE "110000yen"
Age(v) == IF v = 1 THEN "new" ELSE "1 year"

RoomInfo(id, v) ==
    [id |-> id, image_urls |-> <<"https://example.com/image01.jpg">>,
     floor |-> "5F", price_rent |-> Rent(v), price_maintenance |-> "5000yen",
     price_deposit |-> "-", price_gratuity |-> "-", section_type |-> "1DK",
     area |-> "40.0m2"]

BuildingFields == {"name", "image_url", "address", "accesses", "age", "floor",
                   "room_infos"}

\* the room ids of a building, in extraction order: zero, one or two rooms
RoomLists == {<<>>, <<"r1">>, <<"r2">>, <<"r1", "r2">>}

Building(ids, v) ==
    [BuildingInfo("building", [i \in 1..Len(ids) |-> RoomInfo(ids[i], v)])
        EXCEPT !.age = Age(v)]

BuildingLists(v) ==
    {[i \in 1..Len(ls) |-> Building(ls[i], v)] :
        ls \in SeqsUpTo(RoomLists, MaxBuildings)}

\* the first run sees the first values; the second the same or changed ones
Versions(run) == IF run = "run1" THEN {1} ELSE {1, 2}

\* the codes of the ClientErrors of a store that fails
StoreFaults == {"ProvisionedThroughputExceededException"}

Ended == {"done", "KeyError", "ClientError", "AttributeError"}

\* del d[k]
Del(d, k) == [a \in DOMAIN d \ {k} |-> d[a]]

HasKey(tbl, id) == \E it \in tbl : it.id = id

\* the mutant of put_item without the ConditionExpression: PutItem replaces
\* the item under the key
put_item_unconditional(tbl, item, fault) ==
    IF fault # "" THEN [error |-> fault, table |-> tbl]
    ELSE [error |-> "",
          table |-> {it \in tbl : it.id # item.id} \cup {item}]

\* self.table.put_item(Item=item, ConditionExpression=Attr("id").not_exists()):
\* one request, which the table answers atomically; `fault` is the error of a
\* failing store ("" when it is healthy)
put_item(tbl, item, fault) ==
    IF fault # "" THEN [error |-> fault, table |-> tbl]
    ELSE IF HasKey(tbl, item.id)
         THEN [error |-> "ConditionalCheckFailedException", table |-> tbl]
    ELSE [error |-> "", table |-> tbl \cup {item}]

\* the mutant of Swallowed that re-raises every ClientError
Swallowed_none(code) == FALSE

\* the except clause: the ClientError that is passed over
Swallowed(code) == code = "ConditionalCheckFailedException"

\* the outer loop of register() from building b on: the next building with a
\* room; reading room_infos of a BuildingInfo that lost it raises
RECURSIVE NextBuilding(_, _)
NextBuilding(bis, b) ==
    IF b > Len(bis) THEN [kind |-> "end", b |-> b, rooms |-> <<>>]
    ELSE IF "room_infos" \notin DOMAIN bis[b]
         THEN [kind |-> "AttributeError", b |-> b, rooms |-> <<>>]
    ELSE IF bis[b]["room_infos"] = <<>> THEN NextBuilding(bis, b + 1)
    ELSE [kind |-> "room", b |-> b, rooms |-> bis[b]["room_infos"]]

\* the position of the loops of register() after NextBuilding's answer
Enter(run, nb) ==
    /\ reg_pc' = [reg_pc EXCEPT ![run] =
                     IF nb.kind = "room" THEN "register"
                     ELSE IF nb.kind = "end" THEN "done" ELSE nb.kind]
    /\ reg_bi' = [reg_bi EXCEPT ![run] = nb.b]
    /\ reg_ri' = [reg_ri EXCEPT ![run] = 1]
    /\ reg_iter' = [reg_iter EXCEPT ![run] = nb.rooms]

\* RoomInfoRegister.__init__ with the buildings a crawl returned
Construct(run) ==
    /\ reg_pc[run] = "new"
    /\ \E v \in Versions(run) : \E bis \in BuildingLists(v) :
          /\ reg_building_infos' = [reg_building_infos EXCEPT ![run] = bis]
          /\ reg_orig' = [reg_orig EXCEPT ![run] = bis]
    /\ reg_pc' = [reg_pc EXCEPT ![run] = "ready"]
    /\ reg_after' = [reg_after EXCEPT ![run] = {r \in Runs : reg_pc[r] \in Ended}]
    /\ UNCHANGED <<table, reg_bi, reg_ri, reg_iter, reg_calls, first_write>>
    /\ UNCHANGED <<scrape_vars, url_vars, room_vars>>

\* register() up to its first _register_room_info call
Register(run) ==
    /\ reg_pc[run] = "ready"
    /\ Enter(run, NextBuilding(reg_building_infos[run], 1))
    /\ UNCHANGED <<table, reg_building_infos, reg_orig, reg_calls, reg_after,
                   first_write>>
    /\ UNCHANGED <<scrape_vars, url_vars, room_vars>>

Call(run, absent, outcome) ==
    [b |-> reg_bi[run], r |-> reg_ri[run], id |-> reg_iter[run][reg_ri[run]].id,
     absent |-> absent, outcome |-> outcome]

\* one _register_room_info call of register(), and the loops up to the next
RegisterRoomInfo(run) ==
    LET b == reg_bi[run]
        room_info == reg_iter[run][reg_ri[run]]
        building_info_dict == reg_building_infos[run][b]
        absent == ~HasKey(table, room_info.id)
    IN
    /\ reg_pc[run] = "register"
    /\ IF "room_infos" \notin DOMAIN building_info_dict
       THEN \* del building_info_dict["room_infos"] raises
            /\ reg_pc' = [reg_pc EXCEPT ![run] = "KeyError"]
            /\ reg_calls' = [reg_calls EXCEPT ![run] =
                                Append(@, Call(run, absent, "KeyError"))]
            /\ UNCHANGED <<table, reg_building_infos, reg_bi, reg_ri, reg_iter,
                           first_write>>
       ELSE \E fault \in {""} \cup StoreFaults :
            LET deleted == Del(building_info_dict, "room_infos")
                bis == [reg_building_infos[run] EXCEPT ![b] = deleted]
                item == [id |-> room_info.id, room_info |-> room_info,
                         building_info |-> deleted]
                res == put_item(table, item, fault)
            IN
            /\ reg_building_infos' = [reg_building_infos EXCEPT ![run] = bis]
            /\ table' = res.table
            /\ first_write' = IF res.error = "" /\ ~HasKey(first_write, item.id)
                              THEN first_write \cup {item} ELSE first_write
            /\ IF res.error # "" /\ ~Swallowed(res.error)
               THEN /\ reg_pc' = [reg_pc EXCEPT ![run] = "ClientError"]
                    /\ reg_calls' = [reg_calls EXCEPT ![run] =
                                        Append(@, Call(run, absent,
                                            IF res.error \in StoreFaults
                                            THEN "ClientError" ELSE "raised"))]
                    /\ UNCHANGED <<reg_bi, reg_ri, reg_iter>>
               ELSE /\ reg_calls' = [reg_calls EXCEPT ![run] =
                                        Append(@, Call(run, absent,
                                            IF res.error = "" THEN "inserted"
                                            ELSE "exists"))]
                    /\ IF reg_ri[run] < Len(reg_iter[run])
                       THEN /\ reg_ri' = [reg_ri EXCEPT ![run] = @ + 1]
                            /\ UNCHANGED <<reg_pc, reg_bi, reg_iter>>
                       ELSE Enter(run, NextBuilding(bis, b + 1))
    /\ UNCHANGED <<reg_orig, reg_after>>
    /\ UNCHANGED <<scrape_vars, url_vars, room_vars>>

-----------------------------------------------------------------------------
(* SuumoScraper._scrape_room: the text fields of a well-formed row. The    *)
(* text of an element is the sequence of its text nodes, each a sequence   *)
(* of one-character strings; Tag.text concatenates them.                   *)

\* the characters str.strip() removes
Whitespace == {" ", "\t", "\n", "\r"}

RECURSIVE lstrip(_)
lstrip(s) ==
    IF s # <<>> /\ Head(s) \in Whitespace THEN lstrip(Tail(s)) ELSE s

RECURSIVE rstrip(_)
rstrip(s) ==
    IF s # <<>> /\ Last(s) \in Whitespace THEN rstrip(Front(s)) ELSE s

\* str.strip()
strip(s) == rstrip(lstrip(s))

\* Tag.text: the text nodes below the element, concatenated
text(nodes) == Concat(nodes)

\* the elements of the row whose text _scrape_room reads: the third <td> and
\* the marked <span>s
TextElems == {"td[2]", "cassetteitem_price--rent",
              "cassetteitem_price--administration",
              "cassetteitem_price--deposit", "cassetteitem_price--gratuity",
              "cassetteitem_madori", "cassetteitem_menseki"}

\* the text fields of RoomInfo
TextFields == {"floor", "price_rent", "price_maintenance", "price_deposit",
               "price_gratuity", "section_type", "area"}

\* lines 135-151 of _scrape_room: every text field is .text.strip() of its
\* element, but area, which is .text
scrape_room_texts(tag) ==
    [floor |-> strip(text(tag["td[2]"])),
     price_rent |-> strip(text(tag["cassetteitem_price--rent"])),
     price_maintenance |->
         strip(text(tag["cassetteitem_price--administration"])),
     price_deposit |-> strip(text(tag["cassetteitem_price--deposit"])),
     price_gratuity |-> strip(text(tag["cassetteitem_price--gratuity"])),
     section_type |-> strip(text(tag["cassetteitem_madori"])),
     area |-> text(tag["cassetteitem_menseki"])]

\* a text node as the markup may hold it: bare, or with whitespace around it
\* and inside it
TextNodes == {<<"x">>, <<" ", "x">>, <<"x", "\n">>,
              <<"\n", " ", "x", " ", "y", " ", "\n">>}

\* the text nodes of the area <span>: the number and unit, the text of the
\* <sup>, and what follows it
AreaNodes == {<<n, <<"2">>, t>> : n \in TextNodes, t \in {<<>>, <<"\n">>}}

\* the rows: every element with a text node of its own
RoomTags ==
    {[e \in TextElems |->
         IF e = "cassetteitem_menseki" THEN a ELSE <<f[e]>>] :
        f \in [TextElems \ {"cassetteitem_menseki"} -> TextNodes],
        a \in AreaNodes}

NoRoomTexts == [f \in TextFields |-> <<>>]

\* _scrape_room on the row
ScrapeRoom ==
    /\ room_pc = "new"
    /\ room_pc' = "scraped"
    /\ room_texts' = scrape_room_texts(room_tag)
    /\ UNCHANGED room_tag
    /\ UNCHANGED <<scrape_vars, url_vars, reg_vars>>

-----------------------------------------------------------------------------
(* The specifications *)

ScrapeFields ==
    /\ page = FirstPage
    /\ building_infos = <<>>
    /\ scrape_result = <<>>
    /\ scrape_error = ""
    /\ requested = <<>>
    /\ fetched = <<>>
    /\ extracted = <<>>

UrlFields ==
    /\ params = <<>>
    /\ url_page = 0
    /\ url_query = <<>>

RegisterFields ==
    /\ table = {}
    /\ reg_building_infos = [r \in Runs |-> <<>>]
    /\ reg_orig = [r \in Runs |-> <<>>]
    /\ reg_bi = [r \in Runs |-> 0]
    /\ reg_ri = [r \in Runs |-> 0]
    /\ reg_iter = [r \in Runs |-> <<>>]
    /\ reg_calls = [r \in Runs |-> <<>>]
    /\ reg_after = [r \in Runs |-> {}]
    /\ first_write = {}

ScrapeIdle == scrape_pc = "idle" /\ ScrapeFields
UrlIdle == url_pc = "idle" /\ entry_params = <<>> /\ entry_query = <<>> /\ UrlFields
RegisterIdle == reg_pc = [r \in Runs |-> "idle"] /\ RegisterFields
RoomIdle ==
    /\ room_pc = "idle"
    /\ room_tag = [e \in TextElems |-> <<>>]
    /\ room_texts = NoRoomTexts

\* scrape() is entered
InitScrape ==
    scrape_pc = "loop" /\ ScrapeFields /\ UrlIdle /\ RegisterIdle /\ RoomIdle

NextScrape == ScrapeLoop

SpecScrape == InitScrape /\ [][NextScrape]_vars

\* an entry URL with up to MaxParams parameters
InitUrl ==
    /\ \E ps \in SeqsUpTo(UrlParams, MaxParams) :
          /\ entry_params = ps
          /\ entry_query = WrittenQuery(ps)
    /\ url_pc = "new"
    /\ UrlFields
    /\ ScrapeIdle
    /\ RegisterIdle
    /\ RoomIdle

NextUrl == UrlConstruct \/ UrlScrapePage

SpecUrl == InitUrl /\ [][NextUrl]_vars

\* an empty table and two runs yet to be constructed
InitRegister ==
    /\ reg_pc = [r \in Runs |-> "new"]
    /\ RegisterFields
    /\ ScrapeIdle
    /\ UrlIdle
    /\ RoomIdle

NextRegister ==
    \E run \in Runs : Construct(run) \/ Register(run) \/ RegisterRoomInfo(run)

SpecRegister == InitRegister /\ [][NextRegister]_vars

\* a well-formed room row handed to _scrape_room
InitRoom ==
    /\ room_tag \in RoomTags
    /\ room_pc = "new"
    /\ room_texts = NoRoomTexts
    /\ ScrapeIdle
    /\ UrlIdle
    /\ RegisterIdle

NextRoom == ScrapeRoom

SpecRoom == InitRoom /\ [][NextRoom]_vars

-----------------------------------------------------------------------------
(* Claims about SuumoScraper.scrape(), under SpecScrape *)

\* C1: scrape() requests the pages 1, 2, ... each once and in increasing
\* order, requests no page after the first one whose extraction is empty,
\* returns as soon as an extraction is empty, and returns the concatenation
\* of the extractions of the pages before it, in page order.
C1_CrawlTermination ==
    /\ requested = [i \in 1..Len(requested) |-> i]
    /\ \A i \in 1..(Len(extracted) - 1) : extracted[i] # <<>>
    /\ (extracted # <<>> /\ Last(extracted) = <<>>) => scrape_pc = "returned"
    /\ scrape_pc = "returned" =>
          /\ Len(extracted) = Len(requested)
          /\ Last(extracted) = <<>>
          /\ scrape_result = Concat(Front(extracted))

\* scrape() returned after three requests; the first page held only a building
\* with zero rooms, the second page two buildings
C1_Witness ==
    /\ scrape_pc = "returned"
    /\ requested = <<1, 2, 3>>
    /\ extracted[1] = <<BuildingInfo("A", <<>>)>>
    /\ Len(extracted[2]) = 2
    /\ Len(scrape_result) = 3

\* C6: a failed fetch of page j ends scrape() with the fetch error: page j was
\* requested once and is the last request, its failure is no extraction
\* result, and scrape() does not return.
C6_FetchErrorAborts ==
    \A j \in 1..Len(fetched) :
        fetched[j].status # "ok" =>
            /\ j = Len(fetched)
            /\ requested = [i \in 1..j |-> i]
            /\ Len(extracted) = j - 1
            /\ scrape_pc = "raised"
            /\ scrape_error = fetched[j].status
            /\ scrape_result = <<>>

\* the fetch of page 2 failed after page 1 had yielded buildings
C6_Witness ==
    /\ Len(fetched) = 2
    /\ fetched[2] = FetchFailure
    /\ building_infos # <<>>
    /\ scrape_pc = "raised"

\* C9: once a fetched page holds a room row that lacks a required element,
\* scrape() has ended with an error: it produced no RoomInfo for the row, did
\* not go on and returns no building list.
C9_MalformedRowIsFatal ==
    \A i \in 1..Len(fetched) : \A c \in 1..Len(fetched[i].cards) :
        \A r \in 1..Len(fetched[i].cards[c].rows) :
            LacksRequired(fetched[i].cards[c].rows[r]) =>
                /\ scrape_pc = "raised"
                /\ scrape_error # ""
                /\ \A b \in Range(building_infos) :
                      \A room \in Range(b.room_infos) :
                          room.id # fetched[i].cards[c].rows[r].value

-----------------------------------------------------------------------------
(* Claims about the page URL, under SpecUrl *)

RECURSIVE NotPage(_)
NotPage(ps) ==
    IF ps = <<>> THEN <<>>
    ELSE IF Head(ps).key # PageKey THEN <<Head(ps)>> \o NotPage(Tail(ps))
    ELSE NotPage(Tail(ps))

\* C8: the query of the URL _scrape_page(n) requests is every parameter of the
\* entry URL whose key is not "page", as written and in the same order,
\* followed by page=n.
C8_QueryPreserved ==
    url_pc = "requested" =>
        url_query = WrittenQuery(NotPage(entry_params)
                                 \o <<[key |-> PageKey, value |-> Str(url_page)]>>)

-----------------------------------------------------------------------------
(* Claims about RoomInfoRegister, under SpecRegister *)

OnePerKey(tbl) == \A it1, it2 \in tbl : it1.id = it2.id => it1 = it2

Calls(run) == {reg_calls[run][i] : i \in 1..Len(reg_calls[run])}

\* the store answered every write of the run
Healthy(run) == \A c \in Calls(run) : c.outcome # "ClientError"

\* C2: the table holds at most one record per room id, the record under an id
\* is the first one written under it, and a _register_room_info call for an
\* id the table already holds is a silent no-op: it does not raise.
C2_Idempotent ==
    /\ OnePerKey(table)
    /\ table = first_write
    /\ \A run \in Runs : \A c \in Calls(run) :
          (~c.absent /\ c.outcome # "ClientError") => c.outcome = "exists"

\* the (building, room) pairs of a list of buildings, in extraction order
Pairs(bis) ==
    Concat([b \in 1..Len(bis) |->
               [r \in 1..Len(bis[b]["room_infos"]) |-> <<b, r>>]])

\* the pairs the run attempted a write for, in the order of the attempts
RECURSIVE Attempts(_)
Attempts(calls) ==
    IF calls = <<>> THEN <<>>
    ELSE IF Head(calls).outcome = "KeyError" THEN Attempts(Tail(calls))
    ELSE <<<<Head(calls).b, Head(calls).r>>>> \o Attempts(Tail(calls))

IdsOf(bis) ==
    UNION {{bis[b]["room_infos"][r].id : r \in 1..Len(bis[b]["room_infos"])} :
              b \in 1..Len(bis)}

\* C3: a run of register() that ended with a healthy store returned normally,
\* attempted exactly one conditional write per (building, room) pair, in
\* extraction order, and the table holds a record for every room id.
C3_RegisterWritesEveryRoom ==
    \A run \in Runs :
        (reg_pc[run] \in Ended /\ Healthy(run)) =>
            /\ reg_pc[run] = "done"
            /\ Attempts(reg_calls[run]) = Pairs(reg_orig[run])
            /\ \A id \in IdsOf(reg_orig[run]) : HasKey(table, id)

C5_Denormalized ==
    \A run \in Runs : \A c \in Calls(run) :
        (c.absent /\ c.outcome # "ClientError") =>
            \E it \in table :
                /\ it.id = c.id
                /\ it.room_info = reg_orig[run][c.b]["room_infos"][c.r]
                /\ DOMAIN it.building_info = BuildingFields \ {"room_infos"}
                /\ \A f \in DOMAIN it.building_info :
                      it.building_info[f] = reg_orig[run][c.b][f]

\* the room ids of the buildings, building by building
Layout(bis) ==
    [b \in 1..Len(bis) |->
        [r \in 1..Len(bis[b]["room_infos"]) |-> bis[b]["room_infos"][r].id]]

\* C7: a store failure ends the run at the failing write; the records written
\* before stay as written; and a later run over the same buildings with a
\* healthy store ends with exactly one record per room id in the table.
C7_AbortAndRerun ==
    /\ \A run \in Runs :
          reg_pc[run] = "ClientError" =>
              /\ Last(reg_calls[run]).outcome = "ClientError"
              /\ \A i \in 1..(Len(reg_calls[run]) - 1) :
                    reg_calls[run][i].outcome \in {"inserted", "exists"}
    /\ first_write \subseteq table
    /\ \A r1, r2 \in Runs :
          ( /\ reg_pc[r1] = "ClientError"
            /\ r1 \in reg_after[r2]
            /\ Layout(reg_orig[r2]) = Layout(reg_orig[r1])
            /\ reg_pc[r2] \in Ended
            /\ Healthy(r2) ) =>
              \A id \in IdsOf(reg_orig[r2]) :
                  Cardinality({it \in table : it.id = id}) = 1

\* C10: every BuildingInfo of a register keeps its seven fields, room_infos
\* included, with the values it was constructed with.
C10_BuildingInfosUnchanged ==
    \A run \in Runs :
        /\ \A b \in 1..Len(reg_building_infos[run]) :
              DOMAIN reg_building_infos[run][b] = BuildingFields
        /\ reg_building_infos[run] = reg_orig[run]

-----------------------------------------------------------------------------
(* Claims about the text fields of _scrape_room, under SpecRoom *)

NoEdgeWhitespace(s) ==
    s = <<>> \/ (Head(s) \notin Whitespace /\ Last(s) \notin Whitespace)

\* C11: every text field of the RoomInfo _scrape_room returned (floor,
\* section_type, area and the four prices) has no leading and no trailing
\* whitespace, whatever whitespace surrounds the text in the markup.
C11_TextFieldsStripped ==
    room_pc = "scraped" =>
        \A f \in TextFields : NoEdgeWhitespace(room_texts[f])

====
